---- MODULE Spec2Model ----
(***************************************************************************)
(* A model of the lob bytecode machine (src/src/main.rs): the instruction  *)
(* encoding, the byte arena with its little-endian 32-bit loads and        *)
(* stores, the object/frame layout, name resolution and Machine::step.     *)
(*                                                                         *)
(* A u32 is the pair <<hi, lo>> of its top 3 bits and its low 29 bits, the *)
(* split the code itself makes (x >> 29, x & 0x1FFF_FFFF): its value is    *)
(* hi * 2^29 + lo.  Offsets into the arena (pc, fp, gp, sizes, caps) are   *)
(* natural numbers; the arena is bounded by MaxArena, far below 2^29.      *)
(***************************************************************************)
EXTENDS Integers, Sequences, FiniteSets, TLC

\* ------------------------------------------------------------------------
\* Program constants

OBJ_HEADER_SIZE == 20

\* 0x1FFF_FFFF + 1: the number of values of a 29-bit immediate
Lo29 == 536870912

\* ------------------------------------------------------------------------
\* Bounds of the model

\* the arena never grows past MaxArena bytes
MaxArena == 200

\* a program of Programs is a scenario prefix followed by at most MaxTail
\* arbitrary instructions of Alphabet
MaxTail == 2

\* ------------------------------------------------------------------------
\* u32 values

\* the u32 of a number below 2^29
U(n) == <<0, n>>

\* the number of a u32 below 2^29 (offsets, sizes, caps); undefined above
N(w) == CASE w[1] = 0 -> w[2]

Small(w) == w[1] = 0

\* ------------------------------------------------------------------------
\* Inherent and Insn: encoding and decoding

\* an instruction is [op, k, n]: op the opcode, n the u32 immediate, and for
\* op = "Inh" k the Inherent variant (n its payload when k = "Unknown")
MkInsn(op, n) == [op |-> op, k |-> "-", n |-> n]

MkInh(k, n) == [op |-> "Inh", k |-> k, n |-> n]

Inherent_from_u32(n) ==
    CASE n = 0 -> MkInh("Call", U(0))
      [] n = 1 -> MkInh("Pop", U(0))
      [] n = 2 -> MkInh("Alloc", U(0))
      [] OTHER -> MkInh("Unknown", U(3))

\* the payload of an Inherent as a u32; "panic" where assert!(n > 2) fails
Inherent_as_u32(i) ==
    CASE i.k = "Call" -> [ok |-> TRUE, w |-> U(0)]
      [] i.k = "Pop" -> [ok |-> TRUE, w |-> U(1)]
      [] i.k = "Alloc" -> [ok |-> TRUE, w |-> U(2)]
      [] OTHER -> IF i.n[1] > 0 \/ i.n[2] > 2
                  THEN [ok |-> TRUE, w |-> i.n]
                  ELSE [ok |-> FALSE, w |-> i.n]

OpName(op) ==
    CASE op = 0 -> "Def"
      [] op = 1 -> "Set"
      [] op = 2 -> "Push"
      [] op = 3 -> "Inh"
      [] op = 4 -> "Jump"
      [] op = 5 -> "Val"
      [] op = 6 -> "Xlo"
      [] op = 7 -> "Xhi"

OpCode(name) ==
    CASE name = "Def" -> 0
      [] name = "Set" -> 1
      [] name = "Push" -> 2
      [] name = "Inh" -> 3
      [] name = "Jump" -> 4
      [] name = "Val" -> 5
      [] name = "Xlo" -> 6
      [] name = "Xhi" -> 7

\* Insn::from_u32: op = i >> 29, n = i & 0x1FFF_FFFF
Insn_from_u32(i) ==
    LET op == i[1]
        n == i[2]
    IN IF op = 3 THEN Inherent_from_u32(n) ELSE MkInsn(OpName(op), U(n))

\* validate without the 3-bit check of the Xhi immediate
Insn_validate_xhi_unchecked(insn) ==
    LET inh == Inherent_as_u32(insn)
        imm == IF insn.op = "Inh" THEN inh.w ELSE insn.n
    IN IF insn.op = "Inh" /\ ~inh.ok THEN "panic"
       ELSE IF imm[1] = 0 THEN "ok"
       ELSE "immediate doesn't fit in bits 29..0"

\* Insn::validate: "ok", or the error, or "panic" (Inherent::as_u32 asserts)
Insn_validate(insn) ==
    LET inh == Inherent_as_u32(insn)
        imm == IF insn.op = "Inh" THEN inh.w ELSE insn.n
    IN IF insn.op = "Inh" /\ ~inh.ok THEN "panic"
       ELSE IF insn.op = "Xhi" /\ (insn.n[1] # 0 \/ insn.n[2] > 7)
       THEN "xhi immediate doesn't fit in bits 2..0"
       ELSE IF imm[1] = 0 THEN "ok"
       ELSE "immediate doesn't fit in bits 29..0"

\* Insn::as_u32: validate().unwrap(), then (op << 29) | n
Insn_as_u32(insn) ==
    LET imm == IF insn.op = "Inh" THEN Inherent_as_u32(insn).w ELSE insn.n
    IN IF Insn_validate(insn) # "ok"
       THEN [ok |-> FALSE, w |-> U(0)]
       ELSE [ok |-> TRUE, w |-> <<OpCode(insn.op), imm[2]>>]

\* ------------------------------------------------------------------------
\* Item headers

TypeName(ty) ==
    CASE ty = 0 -> "BuiltinCode"
      [] ty = 1 -> "Code"
      [] ty = 2 -> "I32"
      [] ty = 3 -> "Object"
      [] OTHER -> "unreachable"

TypeCode(name) ==
    CASE name = "BuiltinCode" -> 0
      [] name = "Code" -> 1
      [] name = "I32" -> 2
      [] name = "Object" -> 3

\* item_header_from_u32: ty = h >> 29, id = h & 0x1FFF_FFFF
item_header_from_u32(h) == [ty |-> TypeName(h[1]), id |-> h[2]]

\* item_header_to_u32: (ty << 29) | id
item_header_to_u32(ty, id) == <<TypeCode(ty), id>>

\* ------------------------------------------------------------------------
\* Mem: the arena, a sequence of bytes; offset a is element a + 1

\* u32::to_le_bytes
to_le_bytes(w) ==
    << w[2] % 256,
       (w[2] \div 256) % 256,
       (w[2] \div 65536) % 256,
       (w[2] \div 16777216) + 32 * w[1] >>

\* u32::from_le_bytes
from_le_bytes(b) ==
    << b[4] \div 32,
       b[1] + 256 * b[2] + 65536 * b[3] + 16777216 * (b[4] % 32) >>

load_u32(mem, addr) == from_le_bytes(SubSeq(mem, addr + 1, addr + 4))

store_u32(mem, addr, w) ==
    LET b == to_le_bytes(w)
    IN [i \in 1..Len(mem) |->
          IF i > addr /\ i <= addr + 4 THEN b[i - addr] ELSE mem[i]]

\* Vec::resize(val, 0)
resize(mem, val) ==
    IF val <= Len(mem) THEN SubSeq(mem, 1, val)
    ELSE mem \o [i \in 1..(val - Len(mem)) |-> 0]

\* ------------------------------------------------------------------------
\* ObjPtr: header fields at +0, +4, +8, +12, +16

body_offset(p, n) == p + OBJ_HEADER_SIZE + n

cap(mem, p) == N(load_u32(mem, p + 0))

size(mem, p) == N(load_u32(mem, p + 4))

base(mem, p) == N(load_u32(mem, p + 8))

prev(mem, p) == N(load_u32(mem, p + 12))

ret(mem, p) == N(load_u32(mem, p + 16))

obj_set_cap(mem, p, val) == store_u32(mem, p + 0, U(val))

set_size(mem, p, val) == store_u32(mem, p + 4, U(val))

set_base(mem, p, val) == store_u32(mem, p + 8, U(val))

set_prev(mem, p, val) == store_u32(mem, p + 12, U(val))

set_ret(mem, p, val) == store_u32(mem, p + 16, U(val))

tos(mem) == Len(mem)

\* ------------------------------------------------------------------------
\* XData: the accumulator, [ty, v] with v a u32

I32(w) == [ty |-> "I32", v |-> w]

Object(p) == [ty |-> "Object", v |-> U(p)]

XOf(ty, w) == [ty |-> ty, v |-> w]

\* ------------------------------------------------------------------------
\* Name resolution

Found(p) == [tag |-> "Some", p |-> p]

NotFound == [tag |-> "None", p |-> 0]

FindPanic == [tag |-> "Panic", p |-> 0]

\* the loop of find_in_frame from item offset p to the end of the items
RECURSIVE scan_items(_, _, _, _)
scan_items(mem, p, end, id) ==
    IF p < end
    THEN LET hd == item_header_from_u32(load_u32(mem, p))
         IN IF hd.ty = "unreachable" THEN FindPanic
            ELSE IF hd.id = id THEN Found(p)
            ELSE scan_items(mem,
                            p + 4 + (IF hd.ty = "Object"
                                     THEN OBJ_HEADER_SIZE + N(load_u32(mem, p + 4 + 0))
                                     ELSE 4),
                            end, id)
    ELSE IF p = end THEN NotFound ELSE FindPanic

find_in_frame(mem, f, id) ==
    scan_items(mem, f + OBJ_HEADER_SIZE, body_offset(f, size(mem, f)), id)

\* the loop of find: f walks the prev chain, the lookup is in self.fp
RECURSIVE find_loop(_, _, _, _)
find_loop(mem, self_fp, f, id) ==
    IF f # 0
    THEN LET pv == prev(mem, f)
             item == find_in_frame(mem, self_fp, id)
         IN IF item.tag # "None" THEN item
            ELSE IF f = pv THEN FindPanic
            ELSE find_loop(mem, self_fp, pv, id)
    ELSE NotFound

\* find with the outer frame consulted before the current one
find_outer_first(mem, self_fp, id) ==
    LET pv == prev(mem, self_fp)
    IN IF pv # 0 /\ find_in_frame(mem, pv, id).tag = "Some"
       THEN find_in_frame(mem, pv, id)
       ELSE find_loop(mem, self_fp, self_fp, id)

find(mem, self_fp, id) == find_loop(mem, self_fp, self_fp, id)

\* ------------------------------------------------------------------------
\* Growth

\* is_top_frame: "Panic" where assert!(frame_end <= self.tos()) fails
is_top_frame(mem, f) ==
    LET frame_end == body_offset(f, cap(mem, f))
    IN IF frame_end > tos(mem) THEN "Panic"
       ELSE IF frame_end = tos(mem) THEN "Top" ELSE "NotTop"

\* Machine::set_cap: the store, and whether its assertion holds
set_cap(mem, f, val) ==
    [mem |-> obj_set_cap(mem, f, val),
     ok |-> body_offset(f, val) <= tos(mem)]

\* ensure_space growing the current frame wherever it lies
ensure_space_anywhere(mem, f, new_size) ==
    IF new_size > cap(mem, f)
    THEN IF body_offset(f, new_size) > MaxArena
         THEN [tag |-> "Beyond", mem |-> mem]
         ELSE [tag |-> "Ok",
               mem |-> obj_set_cap(resize(mem, body_offset(f, new_size)),
                                   f, new_size)]
    ELSE [tag |-> "Ok", mem |-> mem]

\* ensure_space: [tag, mem], tag one of "Ok", "FrameFull", "Panic", or
\* "Beyond" when the arena would grow past MaxArena
ensure_space(mem, f, new_size) ==
    IF new_size > cap(mem, f)
    THEN LET top == is_top_frame(mem, f)
         IN IF top = "Panic" THEN [tag |-> "Panic", mem |-> mem]
            ELSE IF top = "NotTop" THEN [tag |-> "FrameFull", mem |-> mem]
            ELSE IF body_offset(f, new_size) > MaxArena
            THEN [tag |-> "Beyond", mem |-> mem]
            ELSE LET sc == set_cap(resize(mem, body_offset(f, new_size)),
                                   f, new_size)
                 IN [tag |-> IF sc.ok THEN "Ok" ELSE "Panic", mem |-> sc.mem]
    ELSE [tag |-> "Ok", mem |-> mem]

\* ------------------------------------------------------------------------
\* Machine::step, one operator per arm of its match.  m is the machine
\* [x, pc, fp, gp, mem]; an arm yields [tag, kind, ptr, val, m]:
\*   tag "Ok"     Ok(None), m the machine after the step
\*   tag "Halt"   Ok(Some(val))
\*   tag "Err"    Err(kind), with ptr the ItemPtr of ItemExistsInFrame
\*   tag "Panic"  a failed assertion, unreachable!() or unimplemented!()
\*   tag "Beyond" the step would grow the arena past MaxArena
\* and m is the machine as the step leaves it.

Ok(m) == [tag |-> "Ok", kind |-> "None", ptr |-> 0, val |-> m.x, m |-> m]

Halt(m) == [tag |-> "Halt", kind |-> "Some", ptr |-> 0, val |-> m.x, m |-> m]

Err(m, kind, ptr) ==
    [tag |-> "Err", kind |-> kind, ptr |-> ptr, val |-> m.x, m |-> m]

Panic(m, kind) ==
    [tag |-> "Panic", kind |-> kind, ptr |-> 0, val |-> m.x, m |-> m]

Beyond(m) ==
    [tag |-> "Beyond", kind |-> "MaxArena", ptr |-> 0, val |-> m.x, m |-> m]

\* the result of ensure_space that is not Ok, as the result of the step
Propagate(m, es) ==
    CASE es.tag = "FrameFull" -> Err(m, "FrameFull", 0)
      [] es.tag = "Panic" -> Panic(m, "assert frame_end <= tos")
      [] es.tag = "Beyond" -> Beyond(m)

\* Def without the lookup of id in the current frame
step_Def_unchecked(m, id) ==
    IF id = 0 THEN Halt(m)
    ELSE IF m.x.ty # "I32" THEN Panic(m, "unimplemented")
    ELSE LET new_size == size(m.mem, m.fp) + (4 + 4)
             es == ensure_space(m.mem, m.fp, new_size)
             at == body_offset(m.fp, size(es.mem, m.fp))
             mem1 == store_u32(es.mem, at, item_header_to_u32("I32", id))
             mem2 == store_u32(mem1, at + 4, m.x.v)
             mem3 == set_size(mem2, m.fp, new_size)
         IN IF es.tag # "Ok" THEN Propagate(m, es)
            ELSE Ok([m EXCEPT !.mem = mem3, !.pc = m.pc + 4])

\* Def whose halt at id 0 moves pc past the instruction
step_Def_halt_advances(m, id) ==
    IF id = 0 THEN Halt([m EXCEPT !.pc = m.pc + 4])
    ELSE LET item == find_in_frame(m.mem, m.fp, id)
         IN IF item.tag = "Panic" THEN Panic(m, "find_in_frame")
            ELSE IF item.tag = "Some" THEN Err(m, "ItemExistsInFrame", item.p)
            ELSE IF m.x.ty # "I32" THEN Panic(m, "unimplemented")
            ELSE LET new_size == size(m.mem, m.fp) + (4 + 4)
                     es == ensure_space(m.mem, m.fp, new_size)
                     at == body_offset(m.fp, size(es.mem, m.fp))
                     mem1 == store_u32(es.mem, at,
                                       item_header_to_u32("I32", id))
                     mem2 == store_u32(mem1, at + 4, m.x.v)
                     mem3 == set_size(mem2, m.fp, new_size)
                 IN IF es.tag # "Ok" THEN Propagate(m, es)
                    ELSE Ok([m EXCEPT !.mem = mem3, !.pc = m.pc + 4])

step_Def(m, id) ==
    IF id = 0 THEN Halt(m)
    ELSE LET item == find_in_frame(m.mem, m.fp, id)
         IN IF item.tag = "Panic" THEN Panic(m, "find_in_frame")
            ELSE IF item.tag = "Some" THEN Err(m, "ItemExistsInFrame", item.p)
            ELSE IF m.x.ty # "I32" THEN Panic(m, "unimplemented")
            ELSE LET new_size == size(m.mem, m.fp) + (4 + 4)
                     es == ensure_space(m.mem, m.fp, new_size)
                     at == body_offset(m.fp, size(es.mem, m.fp))
                     mem1 == store_u32(es.mem, at,
                                       item_header_to_u32("I32", id))
                     mem2 == store_u32(mem1, at + 4, m.x.v)
                     mem3 == set_size(mem2, m.fp, new_size)
                 IN IF es.tag # "Ok" THEN Propagate(m, es)
                    ELSE Ok([m EXCEPT !.mem = mem3, !.pc = m.pc + 4])

\* "Push new frame" linking the new frame to itself
push_frame_self_prev(m, xv) ==
    LET new_fp == body_offset(m.fp, cap(m.mem, m.fp))
        mem0 == resize(m.mem, body_offset(new_fp, xv))
        mem1 == obj_set_cap(mem0, new_fp, xv)
        mem2 == set_size(mem1, new_fp, 0)
        mem3 == set_base(mem2, new_fp, m.fp)
        mem4 == set_prev(mem3, new_fp, new_fp)
        mem5 == set_ret(mem4, new_fp, 0)
    IN IF body_offset(new_fp, xv) > MaxArena THEN Beyond(m)
       ELSE Ok([m EXCEPT !.mem = mem5, !.fp = new_fp, !.pc = m.pc + 4])

\* "Push new frame" without set_prev: the new frame's prev stays 0
push_frame_no_prev(m, xv) ==
    LET new_fp == body_offset(m.fp, cap(m.mem, m.fp))
        mem0 == resize(m.mem, body_offset(new_fp, xv))
        mem1 == obj_set_cap(mem0, new_fp, xv)
        mem2 == set_size(mem1, new_fp, 0)
        mem3 == set_base(mem2, new_fp, m.fp)
        mem5 == set_ret(mem3, new_fp, 0)
    IN IF body_offset(new_fp, xv) > MaxArena THEN Beyond(m)
       ELSE Ok([m EXCEPT !.mem = mem5, !.fp = new_fp, !.pc = m.pc + 4])

\* "Push new frame": the header of the new frame at the old top of the arena
push_frame(m, xv) ==
    LET new_fp == body_offset(m.fp, cap(m.mem, m.fp))
        mem0 == resize(m.mem, body_offset(new_fp, xv))
        mem1 == obj_set_cap(mem0, new_fp, xv)
        mem2 == set_size(mem1, new_fp, 0)
        mem3 == set_base(mem2, new_fp, m.fp)
        mem4 == set_prev(mem3, new_fp, m.fp)
        mem5 == set_ret(mem4, new_fp, 0)
    IN IF body_offset(new_fp, xv) > MaxArena THEN Beyond(m)
       ELSE Ok([m EXCEPT !.mem = mem5, !.fp = new_fp, !.pc = m.pc + 4])

\* a named object whose header records the address after the Push as ret
push_object_with_ret(m, id, xv) ==
    LET size_delta == 4 + OBJ_HEADER_SIZE + xv
        old_size == size(m.mem, m.fp)
        new_size == old_size + size_delta
        es == ensure_space(m.mem, m.fp, new_size)
        new_obj_header == body_offset(m.fp, old_size)
        new_obj == new_obj_header + 4
        mem1 == store_u32(es.mem, new_obj_header,
                          item_header_to_u32("Object", id))
        mem2 == obj_set_cap(mem1, new_obj, xv)
        mem3 == set_size(mem2, new_obj, 0)
        mem4 == set_base(mem3, new_obj, m.fp)
        mem5 == set_prev(mem4, new_obj, m.fp)
        mem6 == set_ret(mem5, new_obj, m.pc + 4)
        mem7 == set_size(mem6, m.fp, new_size)
    IN IF es.tag # "Ok" THEN Propagate(m, es)
       ELSE Ok([m EXCEPT !.mem = mem7, !.fp = new_obj, !.pc = m.pc + 4])

\* "Push new named object": an Object item appended to the current frame
push_object(m, id, xv) ==
    LET size_delta == 4 + OBJ_HEADER_SIZE + xv
        old_size == size(m.mem, m.fp)
        new_size == old_size + size_delta
        es == ensure_space(m.mem, m.fp, new_size)
        new_obj_header == body_offset(m.fp, old_size)
        new_obj == new_obj_header + 4
        mem1 == store_u32(es.mem, new_obj_header,
                          item_header_to_u32("Object", id))
        mem2 == obj_set_cap(mem1, new_obj, xv)
        mem3 == set_size(mem2, new_obj, 0)
        mem4 == set_base(mem3, new_obj, m.fp)
        mem5 == set_prev(mem4, new_obj, m.fp)
        mem6 == set_ret(mem5, new_obj, 0)
        mem7 == set_size(mem6, m.fp, new_size)
    IN IF es.tag # "Ok" THEN Propagate(m, es)
       ELSE Ok([m EXCEPT !.mem = mem7, !.fp = new_obj, !.pc = m.pc + 4])

\* Push with the alignment of the capacity checked before the frame
step_Push_align_first(m, id) ==
    IF m.x.ty = "I32"
    THEN IF m.x.v[2] % 4 # 0 THEN Err(m, "UnalignedCap", 0)
         ELSE IF body_offset(m.fp, cap(m.mem, m.fp)) # tos(m.mem)
         THEN Err(m, "NotTopFrame", 0)
         ELSE IF ~Small(m.x.v) THEN Beyond(m)
         ELSE IF id = 0 THEN push_frame(m, N(m.x.v))
         ELSE push_object(m, id, N(m.x.v))
    ELSE IF m.x.ty = "Object" /\ id = 0 THEN Panic(m, "unimplemented")
    ELSE Err(m, "WrongType", 0)

step_Push(m, id) ==
    IF m.x.ty = "I32"
    THEN IF body_offset(m.fp, cap(m.mem, m.fp)) # tos(m.mem)
         THEN Err(m, "NotTopFrame", 0)
         ELSE IF m.x.v[2] % 4 # 0 THEN Err(m, "UnalignedCap", 0)
         ELSE IF ~Small(m.x.v) THEN Beyond(m)
         ELSE IF id = 0 THEN push_frame(m, N(m.x.v))
         ELSE push_object(m, id, N(m.x.v))
    ELSE IF m.x.ty = "Object" /\ id = 0 THEN Panic(m, "unimplemented")
    ELSE Err(m, "WrongType", 0)

\* Pop without the final set_tos: the arena keeps the popped frame's bytes
step_Pop_keep_arena(m) ==
    LET r == ret(m.mem, m.fp)
        m1 == [m EXCEPT !.pc = IF r # 0 THEN r ELSE m.pc + 4]
        old_fp == m.fp
        new_fp == prev(m.mem, m.fp)
        end == body_offset(new_fp, size(m.mem, new_fp))
        inner_end == body_offset(old_fp, size(m.mem, old_fp))
        new_size == inner_end - body_offset(new_fp, 0)
        sc == set_cap(m.mem, new_fp, new_size)
        memw == IF end >= body_offset(old_fp, 0)
                THEN set_size(sc.mem, new_fp, new_size)
                ELSE m.mem
    IN IF new_fp = 0 THEN Err(m1, "StackUnderflow", 0)
       ELSE IF end >= body_offset(old_fp, 0) /\ end # body_offset(old_fp, 0)
       THEN Panic(m, "assert_eq end")
       ELSE IF end >= body_offset(old_fp, 0) /\ ~sc.ok
       THEN Panic(m, "assert set_cap")
       ELSE Ok([m1 EXCEPT !.fp = new_fp, !.mem = memw])

\* Inherent::Pop widening only the parent's size, not its cap
step_Pop_size_only(m) ==
    LET r == ret(m.mem, m.fp)
        m1 == [m EXCEPT !.pc = IF r # 0 THEN r ELSE m.pc + 4]
        old_fp == m.fp
        new_fp == prev(m.mem, m.fp)
        end == body_offset(new_fp, size(m.mem, new_fp))
        inner_end == body_offset(old_fp, size(m.mem, old_fp))
        new_size == inner_end - body_offset(new_fp, 0)
        memw == IF end >= body_offset(old_fp, 0)
                THEN set_size(m.mem, new_fp, new_size)
                ELSE m.mem
        memr == resize(memw, body_offset(new_fp, cap(memw, new_fp)))
    IN IF new_fp = 0 THEN Err(m1, "StackUnderflow", 0)
       ELSE IF end >= body_offset(old_fp, 0) /\ end # body_offset(old_fp, 0)
       THEN Panic(m, "assert_eq end")
       ELSE Ok([m1 EXCEPT !.fp = new_fp, !.mem = memr])

\* Inherent::Pop.  pc is assigned first; the StackUnderflow return keeps it.
step_Pop(m) ==
    LET r == ret(m.mem, m.fp)
        m1 == [m EXCEPT !.pc = IF r # 0 THEN r ELSE m.pc + 4]
        old_fp == m.fp
        new_fp == prev(m.mem, m.fp)
        end == body_offset(new_fp, size(m.mem, new_fp))
        inner_end == body_offset(old_fp, size(m.mem, old_fp))
        new_size == inner_end - body_offset(new_fp, 0)
        sc == set_cap(m.mem, new_fp, new_size)
        memw == IF end >= body_offset(old_fp, 0)
                THEN set_size(sc.mem, new_fp, new_size)
                ELSE m.mem
        memr == resize(memw, body_offset(new_fp, cap(memw, new_fp)))
    IN IF new_fp = 0 THEN Err(m1, "StackUnderflow", 0)
       ELSE IF end >= body_offset(old_fp, 0) /\ end # body_offset(old_fp, 0)
       THEN Panic(m, "assert_eq end")
       ELSE IF end >= body_offset(old_fp, 0) /\ ~sc.ok
       THEN Panic(m, "assert set_cap")
       ELSE IF body_offset(new_fp, cap(memw, new_fp)) > MaxArena
       THEN Beyond(m)
       ELSE Ok([m1 EXCEPT !.fp = new_fp, !.mem = memr])

step_Val(m, id) ==
    IF id = 0 THEN Ok([m EXCEPT !.x = Object(m.gp), !.pc = m.pc + 4])
    ELSE LET f == find(m.mem, m.fp, id)
             hd == item_header_from_u32(load_u32(m.mem, f.p))
             nx == IF hd.ty = "Object" THEN Object(f.p + 4)
                   ELSE XOf(hd.ty, load_u32(m.mem, f.p + 4))
         IN IF f.tag = "Panic" THEN Panic(m, "find")
            ELSE IF f.tag = "None" THEN Err(m, "ItemNotFound", 0)
            ELSE Ok([m EXCEPT !.x = nx, !.pc = m.pc + 4])

step_Xlo(m, n) == Ok([m EXCEPT !.x = I32(U(n)), !.pc = m.pc + 4])

\* Xhi with the whole immediate as the high part: bits above the third kept
step_Xhi_no_shift_loss(m, n) ==
    IF m.x.ty = "I32"
    THEN Ok([m EXCEPT !.x = I32(<<n, m.x.v[2]>>), !.pc = m.pc + 4])
    ELSE Err(m, "WrongType", 0)

\* Xhi replacing x instead of combining with its low 29 bits
step_Xhi_replace(m, n) ==
    IF m.x.ty = "I32"
    THEN Ok([m EXCEPT !.x = I32(<<n % 8, 0>>), !.pc = m.pc + 4])
    ELSE Err(m, "WrongType", 0)

\* (n2 & 0x1FFF_FFFF) | (n << 29): the shift keeps the low 3 bits of n
step_Xhi(m, n) ==
    IF m.x.ty = "I32"
    THEN Ok([m EXCEPT !.x = I32(<<n % 8, m.x.v[2]>>), !.pc = m.pc + 4])
    ELSE Err(m, "WrongType", 0)

\* the arms `_ => unimplemented!()`: Set, Jump, and every Inherent but Pop
step_unimplemented(m) == Panic(m, "unimplemented")

\* the instruction step decodes at pc
Fetch(m) == Insn_from_u32(load_u32(m.mem, m.pc))

\* assert_ne!(self.pc, old_pc) before Ok(None)
pc_changed(m, out) ==
    IF out.tag = "Ok" /\ out.m.pc = m.pc THEN Panic(m, "assert_ne pc")
    ELSE out

\* ------------------------------------------------------------------------
\* Programs: the code images the machine is built from

Def(n) == MkInsn("Def", U(n))

Set(n) == MkInsn("Set", U(n))

Push(n) == MkInsn("Push", U(n))

Jump(n) == MkInsn("Jump", U(n))

Val(n) == MkInsn("Val", U(n))

Xlo(n) == MkInsn("Xlo", U(n))

Xhi(n) == MkInsn("Xhi", U(n))

Pop == MkInh("Pop", U(0))

Call == MkInh("Call", U(0))

Alloc == MkInh("Alloc", U(0))

Unknown(n) == MkInh("Unknown", U(n))

\* the instructions a tail is made of
Alphabet ==
    { Def(0), Def(1), Def(2), Push(0), Push(1), Pop, Val(0), Val(1),
      Xlo(5), Xlo(8), Xhi(7), Set(1), Jump(4), Call, Alloc, Unknown(4) }

\* the sequences of at most n instructions of Alphabet
RECURSIVE Tails(_)
Tails(n) ==
    IF n = 0 THEN { <<>> }
    ELSE LET shorter == Tails(n - 1)
         IN shorter \cup { Append(t, i) : t \in shorter, i \in Alphabet }

\* the program of main()
MainProgram ==
    << Val(0), Xlo(0), Push(0), Push(1), Xlo(Lo29 - 1), Xhi(7),
       Def(1), Def(2), Def(3), Def(4), Xlo(0), Push(0), Pop, Pop, Pop,
       Def(0) >>

\* the end-to-end example
ExampleProgram ==
    << Push(0), Push(1), Val(0), Xlo(Lo29 - 1), Xhi(7), Def(1), Def(0) >>

\* program prefixes that set up the frames a tail then runs in: the root
\* alone, a frame or a named object over it, with or without reserved
\* capacity, over an outer definition, and a named object that is not the
\* top of the arena
Stems ==
    { <<>>,
      << Push(0) >>,
      << Push(1) >>,
      << Xlo(8), Push(0) >>,
      << Xlo(8), Push(1) >>,
      << Def(1), Push(0) >>,
      << Def(1), Push(0), Xlo(5), Def(1) >>,
      << Xlo(28), Push(0), Xlo(0), Push(1) >> }

Programs ==
    { s \o t : s \in Stems, t \in Tails(MaxTail) }
        \cup { MainProgram, ExampleProgram }

\* prog.iter().map(|i| i.as_u32()): the words of a program
Words(prog) == [i \in 1..Len(prog) |-> Insn_as_u32(prog[i]).w]

RECURSIVE Bytes(_)
Bytes(code) ==
    IF code = <<>> THEN <<>>
    ELSE to_le_bytes(Head(code)) \o Bytes(Tail(code))

\* Machine::new
Machine_new(code) ==
    LET image == Bytes(code)
        p == Len(image)
    IN [x |-> I32(U(0)), pc |-> 0, fp |-> p, gp |-> p,
        mem |-> resize(image, p + OBJ_HEADER_SIZE)]

\* ------------------------------------------------------------------------
\* State

VARIABLES
    x,      \* Machine.x, the accumulator
    pc,     \* Machine.pc
    fp,     \* Machine.fp
    gp,     \* Machine.gp
    mem,    \* Machine.mem, the arena
    last,   \* what the last call of step executed and returned
    hist,   \* history: one record per live frame, the root first
    enc     \* the instruction under test of the encoding specification

vars == <<x, pc, fp, gp, mem, last, hist, enc>>

M == [x |-> x, pc |-> pc, fp |-> fp, gp |-> gp, mem |-> mem]

\* the history record of a frame: the object, the id and capacity of the
\* Push that made it, the machine before that Push, and what its successful
\* steps did since: defs, the <<id, value>> pairs its Def and Push steps
\* entered into it; ran, the opcodes executed in it; kids, the defs of the
\* frames popped back into it
Frame(m, id, xv, pre) ==
    [fp |-> m.fp, id |-> id, xv |-> xv,
     pre_fp |-> pre.fp, pre_pc |-> pre.pc, pre_mem |-> pre.mem,
     defs |-> <<>>, ran |-> <<>>, kids |-> <<>>]

NoMachine == [x |-> I32(U(0)), pc |-> 0, fp |-> 0, gp |-> 0, mem |-> <<>>]

EncIdle == [stage |-> "idle", insn |-> Def(0), verdict |-> "ok",
            word |-> U(0), back |-> Def(0)]

Init ==
    \E prog \in Programs :
        LET m == Machine_new(Words(prog))
        IN /\ x = m.x
           /\ pc = m.pc
           /\ fp = m.fp
           /\ gp = m.gp
           /\ mem = m.mem
           /\ last = [insn |-> Def(0), tag |-> "New", kind |-> "None",
                      ptr |-> 0, val |-> m.x]
           /\ hist = << Frame(m, 0, 0, NoMachine) >>
           /\ enc = EncIdle

\* the history after a step with result out
Entered(h, id, val) ==
    [h EXCEPT ![Len(h)].defs = Append(@, <<id, val>>)]

Ran(h, op) ==
    [h EXCEPT ![Len(h)].ran = Append(@, op)]

Popped(h) ==
    IF Len(h) > 1
    THEN [SubSeq(h, 1, Len(h) - 1) EXCEPT
            ![Len(h) - 1].kids = Append(@, h[Len(h)].defs)]
    ELSE h

NextHist(insn, out) ==
    IF out.tag # "Ok" THEN hist
    ELSE IF insn.op = "Def" THEN Ran(Entered(hist, N(insn.n), x), "Def")
    ELSE IF insn.op = "Push" /\ N(insn.n) = 0
    THEN Append(Ran(hist, "Push"), Frame(out.m, 0, N(x.v), M))
    ELSE IF insn.op = "Push"
    THEN Append(Ran(Entered(hist, N(insn.n), Object(out.m.fp)), "Push"),
                Frame(out.m, N(insn.n), N(x.v), M))
    ELSE IF insn.op = "Inh" THEN Popped(hist)
    ELSE Ran(hist, insn.op)

\* a call of step that executes insn with result out
Returns(insn, out) ==
    /\ out.tag # "Beyond"
    /\ x' = out.m.x
    /\ pc' = out.m.pc
    /\ fp' = out.m.fp
    /\ gp' = out.m.gp
    /\ mem' = out.m.mem
    /\ last' = [insn |-> insn, tag |-> out.tag, kind |-> out.kind,
                ptr |-> out.ptr, val |-> out.val]
    /\ hist' = NextHist(insn, out)
    /\ UNCHANGED enc

\* step can be called while the machine exists and pc is in the arena
Callable == last.tag # "Panic" /\ pc + 4 <= tos(mem)

StepDef ==
    /\ Callable
    /\ Fetch(M).op = "Def"
    /\ Returns(Fetch(M), pc_changed(M, step_Def(M, N(Fetch(M).n))))

StepPush ==
    /\ Callable
    /\ Fetch(M).op = "Push"
    /\ Returns(Fetch(M), pc_changed(M, step_Push(M, N(Fetch(M).n))))

StepPop ==
    /\ Callable
    /\ Fetch(M).op = "Inh"
    /\ Fetch(M).k = "Pop"
    /\ Returns(Fetch(M), pc_changed(M, step_Pop(M)))

StepVal ==
    /\ Callable
    /\ Fetch(M).op = "Val"
    /\ Returns(Fetch(M), pc_changed(M, step_Val(M, N(Fetch(M).n))))

StepXlo ==
    /\ Callable
    /\ Fetch(M).op = "Xlo"
    /\ Returns(Fetch(M), pc_changed(M, step_Xlo(M, N(Fetch(M).n))))

StepXhi ==
    /\ Callable
    /\ Fetch(M).op = "Xhi"
    /\ Returns(Fetch(M), pc_changed(M, step_Xhi(M, N(Fetch(M).n))))

StepUnimplemented ==
    /\ Callable
    /\ \/ Fetch(M).op \in {"Set", "Jump"}
       \/ Fetch(M).op = "Inh" /\ Fetch(M).k # "Pop"
    /\ Returns(Fetch(M), pc_changed(M, step_unimplemented(M)))

Next ==
    \/ StepDef
    \/ StepPush
    \/ StepPop
    \/ StepVal
    \/ StepXlo
    \/ StepXhi
    \/ StepUnimplemented

Spec == Init /\ [][Next]_vars

\* ------------------------------------------------------------------------
\* The encoding specification: an instruction is validated, encoded by
\* as_u32 and decoded again by from_u32

\* the largest of the small immediates under test
MaxImm == 4

Imms ==
    { U(n) : n \in 0..MaxImm } \cup
    { U(7), U(8), U(Lo29 - 1), <<1, 0>>, <<1, 8>>, <<7, Lo29 - 1>> }

EncInputs ==
    { MkInsn(op, n) :
        op \in {"Def", "Set", "Push", "Jump", "Val", "Xlo", "Xhi"},
        n \in Imms }
        \cup { Call, Pop, Alloc }
        \cup { MkInh("Unknown", n) : n \in Imms }

InitEnc ==
    /\ x = NoMachine.x
    /\ pc = 0
    /\ fp = 0
    /\ gp = 0
    /\ mem = <<>>
    /\ last = [insn |-> Def(0), tag |-> "New", kind |-> "None",
               ptr |-> 0, val |-> NoMachine.x]
    /\ hist = <<>>
    /\ \E i \in EncInputs :
          enc = [EncIdle EXCEPT !.stage = "input", !.insn = i]

Validate ==
    /\ enc.stage = "input"
    /\ enc' = [enc EXCEPT !.stage = "validated",
                          !.verdict = Insn_validate(enc.insn)]
    /\ UNCHANGED <<x, pc, fp, gp, mem, last, hist>>

\* as_u32 unwraps the verdict of validate: anything but Ok(()) panics
Encode ==
    /\ enc.stage = "validated"
    /\ enc' = IF Insn_as_u32(enc.insn).ok
              THEN [enc EXCEPT !.stage = "encoded",
                               !.word = Insn_as_u32(enc.insn).w]
              ELSE [enc EXCEPT !.stage = "panic"]
    /\ UNCHANGED <<x, pc, fp, gp, mem, last, hist>>

Decode ==
    /\ enc.stage = "encoded"
    /\ enc' = [enc EXCEPT !.stage = "decoded",
                          !.back = Insn_from_u32(enc.word)]
    /\ UNCHANGED <<x, pc, fp, gp, mem, last, hist>>

NextEnc ==
    \/ Validate
    \/ Encode
    \/ Decode

SpecEnc == InitEnc /\ [][NextEnc]_vars

\* ------------------------------------------------------------------------
\* Literal assembly: machines built from raw code words, so that Xhi is
\* decoded with immediates above 7, which as_u32 refuses to encode

MaxHigh == 9

LitLows == (0..MaxImm) \cup {Lo29 \div 2, Lo29 - 2, Lo29 - 1}

LitHighs == 0..MaxHigh

LitPrograms ==
    { << <<OpCode("Xlo"), a>>, <<OpCode("Xhi"), b>>, <<OpCode("Xhi"), c>> >> :
        a \in LitLows, b \in LitHighs, c \in LitHighs }
    \cup
    { << <<OpCode("Val"), 0>>, <<OpCode("Xlo"), a>>, <<OpCode("Xhi"), b>> >> :
        a \in LitLows, b \in LitHighs }
    \cup
    { << <<OpCode("Val"), 0>>, <<OpCode("Xhi"), b>> >> : b \in LitHighs }

InitLit ==
    \E code \in LitPrograms :
        LET m == Machine_new(code)
        IN /\ x = m.x
           /\ pc = m.pc
           /\ fp = m.fp
           /\ gp = m.gp
           /\ mem = m.mem
           /\ last = [insn |-> Def(0), tag |-> "New", kind |-> "None",
                      ptr |-> 0, val |-> m.x]
           /\ hist = << Frame(m, 0, 0, NoMachine) >>
           /\ enc = EncIdle

NextLit ==
    \/ StepVal
    \/ StepXlo
    \/ StepXhi

SpecLit == InitLit /\ [][NextLit]_vars

\* ------------------------------------------------------------------------
\* Vocabulary of the claims

\* the instruction the next call of step executes, and its immediate
Cur == Fetch(M)

CurId == N(Cur.n)

\* a call of step executes an instruction with opcode op
Executes(op) == Callable /\ Cur.op = op

ExecutesPop == Callable /\ Cur.op = "Inh" /\ Cur.k = "Pop"

Top == hist[Len(hist)]

\* the machine and the arena are as they were before the step
MachineUnchanged ==
    /\ x' = x
    /\ pc' = pc
    /\ fp' = fp
    /\ gp' = gp
    /\ mem' = mem

\* the typed value of the item at p, as Val reads it
ItemValue(m, p) ==
    LET hd == item_header_from_u32(load_u32(m, p))
    IN IF hd.ty = "Object" THEN Object(p + 4)
       ELSE XOf(hd.ty, load_u32(m, p + 4))

\* name resolution as specified: the nearest frame on the prev chain from f
\* whose own item list holds id
RECURSIVE Nearest(_, _, _)
Nearest(m, f, id) ==
    IF f = 0 THEN NotFound
    ELSE IF find_in_frame(m, f, id).tag = "Some" THEN find_in_frame(m, f, id)
    ELSE Nearest(m, prev(m, f), id)

\* C1: whenever Val(id), id # 0, is executed and id is absent from the
\* current frame's own items but some frame on the prev chain defines it,
\* the step succeeds with x the value of the nearest definition; and
\* ItemNotFound is returned only when no frame on the chain defines id.
C1_FallsThroughChain ==
    [][ (Executes("Val") /\ CurId # 0
            /\ find_in_frame(mem, fp, CurId).tag = "None")
        => /\ Nearest(mem, fp, CurId).tag = "Some"
              => /\ last'.tag = "Ok"
                 /\ x' = ItemValue(mem, Nearest(mem, fp, CurId).p)
           /\ last'.kind = "ItemNotFound"
              => Nearest(mem, fp, CurId).tag = "None" ]_vars

\* an instruction whose immediate satisfies its width constraint
InWidth(i) ==
    CASE i.op = "Xhi" -> Small(i.n) /\ N(i.n) <= 7
      [] i.op = "Inh" /\ i.k = "Unknown" -> Small(i.n) /\ N(i.n) > 2
      [] OTHER -> Small(i.n)

\* C2: for every instruction whose immediate satisfies its width
\* constraint, from_u32(as_u32(insn)) has the opcode and the immediate or
\* payload of insn.
C2_RoundTrip ==
    (enc.stage = "decoded" /\ InWidth(enc.insn)) => enc.back = enc.insn

\* the steps run in the current frame since the Push that made it are all Def
OnlyDefsInside ==
    /\ Len(hist) > 1
    /\ Top.fp = fp
    /\ \A i \in 1..Len(Top.ran) : Top.ran[i] = "Def"

\* the parent's body holds the child: its item header, its 20-byte header
\* and the items defined in it
HoldsChild(m, parent, child) ==
    /\ body_offset(parent, 0) <= child - 4
    /\ body_offset(child, size(m, child)) <= body_offset(parent, cap(m, parent))

\* C3: after a named nested object is created by Push(id), id # 0, with any
\* capacity that is a multiple of 4, and any number of successful Def steps
\* inside it, Pop is a normal successful step, fp becomes the parent, the
\* parent's body holds the whole child, and the arena ends at the parent's
\* body_offset(cap).
C3_PopNamedObject ==
    [][ (ExecutesPop /\ OnlyDefsInside /\ Top.id # 0)
        => /\ last'.tag = "Ok"
           /\ fp' = Top.pre_fp
           /\ HoldsChild(mem', fp', fp)
           /\ tos(mem') = body_offset(fp', cap(mem', fp')) ]_vars

\* a Push is executed while x is an I32 that is not a multiple of 4
UnalignedPush == Executes("Push") /\ x.ty = "I32" /\ x.v[2] % 4 # 0

\* C4, as claimed: Push(id) while x is I32(v), v not a multiple of 4, always
\* returns UnalignedCap, whichever frame is current.
C4_AlwaysUnalignedCap ==
    [][ UnalignedPush => (last'.tag = "Err" /\ last'.kind = "UnalignedCap")
      ]_vars

\* C4, amended: such a Push returns UnalignedCap when the current frame is
\* the top of the arena, and NotTopFrame when it is not.
C4_UnalignedCapAtTop ==
    [][ UnalignedPush
        => /\ last'.tag = "Err"
           /\ last'.kind = IF body_offset(fp, cap(mem, fp)) = tos(mem)
                           THEN "UnalignedCap" ELSE "NotTopFrame" ]_vars

C4_Witness ==
    /\ last.insn.op = "Push"
    /\ last.kind = "UnalignedCap"
    /\ x.ty = "I32"
    /\ x.v[2] % 4 # 0

\* the ids of the items stored directly in the body of object f, in order
RECURSIVE ItemIdsFrom(_, _, _)
ItemIdsFrom(m, p, end) ==
    IF p >= end THEN <<>>
    ELSE LET hd == item_header_from_u32(load_u32(m, p))
             len == IF hd.ty = "Object"
                    THEN 4 + OBJ_HEADER_SIZE + N(load_u32(m, p + 4))
                    ELSE 4 + 4
         IN <<hd.id>> \o ItemIdsFrom(m, p + len, end)

ItemIds(m, f) ==
    ItemIdsFrom(m, body_offset(f, 0), body_offset(f, size(m, f)))

\* the objects on the prev chain from f
RECURSIVE Chain(_, _)
Chain(m, f) == IF f = 0 THEN {} ELSE {f} \cup Chain(m, prev(m, f))

\* C5: in every reachable state, no two items stored directly in the body
\* of one object carry the same id, and no stored item has id 0.
C5_UniqueIds ==
    \A f \in Chain(mem, fp) :
        LET ids == ItemIds(mem, f)
        IN /\ \A i, j \in 1..Len(ids) : ids[i] = ids[j] => i = j
           /\ \A i \in 1..Len(ids) : ids[i] # 0

\* the first value entered under id into a frame with history defs
RECURSIVE FirstDef(_, _)
FirstDef(defs, id) ==
    IF defs = <<>> THEN [found |-> FALSE, val |-> I32(U(0))]
    ELSE IF Head(defs)[1] = id THEN [found |-> TRUE, val |-> Head(defs)[2]]
    ELSE FirstDef(Tail(defs), id)

\* C6: Val(id) resolves in the current frame first: where the current frame
\* itself defined id, Val(id) sets x to that value, whatever the outer
\* frames define.  So with id defined as a outside and as b inside a pushed
\* frame, Val(id) yields b inside, and a again after the Pop.
C6_ScopeOrder ==
    [][ (Executes("Val") /\ CurId # 0 /\ Top.fp = fp
            /\ FirstDef(Top.defs, CurId).found)
        => /\ last'.tag = "Ok"
           /\ x' = FirstDef(Top.defs, CurId).val ]_vars

\* the outer frame defined id 1 as 0, a frame pushed over it defined id 1
\* as 5 and was popped, and Val(1) then read 0
C6_Witness ==
    /\ last.insn = Val(1)
    /\ last.tag = "Ok"
    /\ x = I32(U(0))
    /\ FirstDef(Top.defs, 1).found
    /\ FirstDef(Top.defs, 1).val = I32(U(0))
    /\ \E i \in 1..Len(Top.kids) :
          /\ FirstDef(Top.kids[i], 1).found
          /\ FirstDef(Top.kids[i], 1).val = I32(U(5))

\* C7: when Def(id), id # 0, is executed and the current frame's own item
\* list already holds id, the step returns ItemExistsInFrame pointing at
\* the existing item, and the frame's size and cap and every arena byte
\* are as before.
C7_DuplicateRejected ==
    [][ (Executes("Def") /\ CurId # 0 /\ Top.fp = fp
            /\ FirstDef(Top.defs, CurId).found)
        => /\ last'.tag = "Err"
           /\ last'.kind = "ItemExistsInFrame"
           /\ last'.ptr >= body_offset(fp, 0)
           /\ last'.ptr < body_offset(fp, size(mem, fp))
           /\ item_header_from_u32(load_u32(mem, last'.ptr)).id = CurId
           /\ ItemValue(mem, last'.ptr) = FirstDef(Top.defs, CurId).val
           /\ fp' = fp
           /\ mem' = mem ]_vars

C7_Witness ==
    /\ last.insn.op = "Def"
    /\ last.kind = "ItemExistsInFrame"
    /\ FirstDef(Top.defs, N(last.insn.n)).found

\* C8: Push(0) with x = I32(c), then any number of successful Def steps in
\* the new frame, then Pop: fp and the arena length are as before the Push,
\* every arena byte below the old arena length is unchanged, and pc is at
\* the instruction following the Pop.
C8_PopSymmetry ==
    [][ (ExecutesPop /\ OnlyDefsInside /\ Top.id = 0)
        => /\ last'.tag = "Ok"
           /\ fp' = Top.pre_fp
           /\ tos(mem') = Len(Top.pre_mem)
           /\ mem' = Top.pre_mem
           /\ pc' = pc + 4 ]_vars

\* a frame pushed with capacity 8 held one Def and was popped
C8_Witness ==
    /\ last.insn = Pop
    /\ last.tag = "Ok"
    /\ Top.ran # <<>>
    /\ Top.ran[Len(Top.ran)] = "Push"
    /\ \E i \in 1..Len(Top.kids) : Len(Top.kids[i]) > 0

\* the current frame is not the top-of-arena object
NotTop == body_offset(fp, cap(mem, fp)) # tos(mem)

\* C9: whenever the current frame is not the top-of-arena object, Push
\* with x an I32 returns NotTopFrame, and Def(id) of a new id with x an I32
\* whose 8 bytes do not fit (size + 8 > cap) returns FrameFull; in both
\* cases the arena is unchanged.
C9_GrowthOnlyAtTop ==
    [][ /\ (Executes("Push") /\ NotTop /\ x.ty = "I32")
           => /\ last'.tag = "Err"
              /\ last'.kind = "NotTopFrame"
              /\ mem' = mem
        /\ (Executes("Def") /\ NotTop /\ x.ty = "I32" /\ CurId # 0
               /\ ~FirstDef(Top.defs, CurId).found
               /\ size(mem, fp) + 8 > cap(mem, fp))
           => /\ last'.tag = "Err"
              /\ last'.kind = "FrameFull"
              /\ mem' = mem ]_vars

C9_Witness ==
    /\ last.insn.op = "Def"
    /\ last.kind = "FrameFull"
    /\ NotTop

\* an instruction step does not implement
Unimplemented(i) ==
    \/ i.op \in {"Set", "Jump"}
    \/ i.op = "Inh" /\ i.k \in {"Call", "Alloc", "Unknown"}

\* C10: executing Set, Jump, Call, Alloc or an Unknown inherent makes step
\* return a fault to its caller: it neither succeeds nor aborts the
\* machine, and x, pc, fp and the arena are unchanged.
C10_UnimplementedFaults ==
    [][ (Callable /\ Unimplemented(Cur))
        => /\ last'.tag = "Err"
           /\ MachineUnchanged ]_vars

\* the immediate of i fits its width: 29 bits, and 3 bits for Xhi
FitsWidth(i) == Small(i.n) /\ (i.op = "Xhi" => N(i.n) <= 7)

\* i is an instruction of the data model: an Unknown inherent has a payload
\* above 2, as Inherent::as_u32 asserts
WellFormed(i) == ~(i.op = "Inh" /\ i.k = "Unknown" /\ Small(i.n) /\ N(i.n) <= 2)

\* C11: encoding an instruction is rejected, and produces no instruction
\* word, exactly when its immediate does not fit its width (2^29 or more
\* for any opcode, above 7 for Xhi); validate accepts every instruction
\* whose immediate fits.
C11_RejectedIffOutOfRange ==
    WellFormed(enc.insn)
    => /\ enc.stage \in {"validated", "encoded", "decoded", "panic"}
          => (enc.verdict = "ok" <=> FitsWidth(enc.insn))
       /\ enc.stage \in {"encoded", "decoded"} => FitsWidth(enc.insn)
       /\ enc.stage = "panic" => ~FitsWidth(enc.insn)

\* Xhi(8) fits 29 bits but not 3: validate refused it and as_u32 panicked
C11_Witness ==
    /\ enc.stage = "panic"
    /\ enc.insn = Xhi(8)
    /\ enc.verdict # "ok"

\* C12: Pop executed while the current frame is the root (its prev is 0)
\* returns StackUnderflow and leaves fp, the root's header fields and the
\* arena length unchanged; Pop from a frame created by Push never returns
\* StackUnderflow.
C12_StackUnderflow ==
    [][ /\ (ExecutesPop /\ prev(mem, fp) = 0)
           => /\ last'.tag = "Err"
              /\ last'.kind = "StackUnderflow"
              /\ fp' = fp
              /\ mem' = mem
        /\ (ExecutesPop /\ Len(hist) > 1 /\ Top.fp = fp)
           => last'.kind # "StackUnderflow" ]_vars

C12_Witness ==
    /\ last.insn = Pop
    /\ last.kind = "StackUnderflow"
    /\ fp = gp
    /\ Len(hist) = 1

\* the machine was built from the program prog
RunsProgram(prog) ==
    /\ gp = 4 * Len(prog)
    /\ SubSeq(mem, 1, gp) = Bytes(Words(prog))

\* C13: the machine built from [Push(0), Push(1), Val(0), Xlo(0x1FFFFFFF),
\* Xhi(7), Def(1), Def(0)] executes every step without a fault or a fatal
\* assertion and halts at Def(0) returning I32(0xFFFFFFFF).
C13_EndToEnd ==
    RunsProgram(ExampleProgram)
    => /\ last.tag \in {"New", "Ok", "Halt"}
       /\ pc <= 4 * (Len(ExampleProgram) - 1)
       /\ last.tag = "Halt"
          => /\ last.insn = Def(0)
             /\ pc = 4 * (Len(ExampleProgram) - 1)
             /\ last.val = I32(<<7, Lo29 - 1>>)

C13_Witness ==
    /\ RunsProgram(ExampleProgram)
    /\ last.tag = "Halt"
    /\ last.val = I32(<<7, Lo29 - 1>>)

\* C14: a step that returns a fault leaves the machine as it was before the
\* step: x, pc, fp, gp, the arena's bytes and its length are unchanged, for
\* every fault kind.
C14_FaultLeavesMachine ==
    [][ last'.tag = "Err" => MachineUnchanged ]_vars

\* the header of object f is consistent with the arena m
HeaderConsistent(m, f) ==
    /\ size(m, f) <= cap(m, f)
    /\ body_offset(f, cap(m, f)) <= tos(m)

\* C15: in every reachable state, every object reachable from fp by
\* following prev links, fp included, has size <= cap and its
\* body_offset(cap) within the arena's length.
C15_HeaderConsistency ==
    \A f \in Chain(mem, fp) : HeaderConsistent(mem, f)

\* a named object that grew by a Def was popped back into its parent, which
\* set_cap and set_size widened to hold it
C15_Witness ==
    /\ last.insn = Pop
    /\ last.tag = "Ok"
    /\ Top.defs # <<>>
    /\ Top.defs[Len(Top.defs)][2].ty = "Object"
    /\ Top.kids # <<>>
    /\ Len(Top.kids[Len(Top.kids)]) > 0
    /\ size(mem, fp) = cap(mem, fp)
    /\ size(mem, fp) >= 4 + OBJ_HEADER_SIZE + 8

\* C16: when Pop returns from a named nested object to its parent, the
\* parent's cap after the Pop is greater than or equal to the parent's cap
\* before the Pop.
C16_PopOnlyWidens ==
    [][ (ExecutesPop /\ Len(hist) > 1 /\ Top.id # 0 /\ last'.tag = "Ok")
        => /\ fp' = prev(mem, fp)
           /\ cap(mem', fp') >= cap(mem, prev(mem, fp)) ]_vars

\* C17: in every state reachable by calling step on a machine built from a
\* non-empty program, pc is a multiple of 4 in [0, gp), so no word of an
\* object header or item is decoded as an instruction.
C17_PcInCode ==
    gp # 0 => (pc % 4 = 0 /\ pc < gp)

\* the instructions step implements
Implemented(i) ==
    \/ i.op \in {"Def", "Push", "Val", "Xlo", "Xhi"}
    \/ i.op = "Inh" /\ i.k = "Pop"

\* C18: every successful non-halting step of an implemented instruction
\* sets pc to old pc + 4; the ret field of every object is 0 when the object
\* is created and while it is on the prev chain; and the assertion that pc
\* changed never fails.
C18_PcAdvancesByFour ==
    [][ /\ (Callable /\ Implemented(Cur) /\ last'.tag = "Ok")
           => pc' = pc + 4
        /\ (Executes("Push") /\ last'.tag = "Ok") => ret(mem', fp') = 0
        /\ \A f \in Chain(mem, fp) : ret(mem, f) = 0
        /\ \A f \in Chain(mem', fp') : ret(mem', f) = 0
        /\ last'.kind # "assert_ne pc" ]_vars

\* the Pop at pc - 4 returned from a named object to its parent
C18_Witness ==
    /\ last.insn = Pop
    /\ last.tag = "Ok"
    /\ pc >= 4
    /\ pc - 4 < gp
    /\ Insn_from_u32(load_u32(mem, pc - 4)) = Pop
    /\ Top.defs # <<>>
    /\ Top.defs[Len(Top.defs)][2].ty = "Object"

\* following prev from f visits strictly decreasing offsets down to gp,
\* whose prev is 0
RECURSIVE Descends(_, _)
Descends(m, f) ==
    IF f = gp THEN prev(m, f) = 0
    ELSE /\ prev(m, f) # 0
         /\ prev(m, f) < f
         /\ Descends(m, prev(m, f))

\* C19: in every reachable state, following prev links from fp visits
\* strictly decreasing offsets and ends at gp, whose prev is 0; find never
\* fails on a prev link that points at its own object.
C19_ChainWellFounded ==
    /\ Descends(mem, fp)
    /\ ~(last.tag = "Panic" /\ last.kind = "find")

\* find walked a chain of three objects without finding the id
C19_Witness ==
    /\ last.insn.op = "Val"
    /\ last.kind = "ItemNotFound"
    /\ Cardinality(Chain(mem, fp)) >= 3

\* (v mod 2^29) + (b mod 8) * 2^29 in 32 bits
Assembled(v, b) == <<b % 8, v[2] % Lo29>>

\* C20: Xlo(a) sets x to I32(a) whatever x was; Xhi(b) with x = I32(v) sets
\* x to I32((v mod 2^29) + (b mod 8) * 2^29), and with x of another type
\* returns WrongType and leaves x unchanged; so Xlo(w mod 2^29) followed by
\* Xhi(w div 2^29) leaves x = I32(w).
C20_LiteralAssembly ==
    [][ /\ Executes("Xlo")
           => last'.tag = "Ok" /\ x' = I32(Cur.n)
        /\ (Executes("Xhi") /\ x.ty = "I32")
           => last'.tag = "Ok" /\ x' = I32(Assembled(x.v, CurId))
        /\ (Executes("Xhi") /\ x.ty # "I32")
           => last'.tag = "Err" /\ last'.kind = "WrongType" /\ x' = x
        /\ (Executes("Xhi") /\ CurId <= 7
               /\ last.insn.op = "Xlo" /\ last.tag = "Ok")
           => x' = I32(<<CurId, N(last.insn.n)>>) ]_vars

\* Xhi decoded with immediate 9 ran after Xlo(2^29 - 1)
C20_Witness ==
    /\ last.insn = MkInsn("Xhi", U(9))
    /\ last.tag = "Ok"
    /\ x = I32(<<1, Lo29 - 1>>)
    /\ Insn_from_u32(load_u32(mem, 0)).op = "Xlo"

\* the machine stands halted: its last step returned a result
Halted == last.tag = "Halt"

\* C21: Def(0) returns the current accumulator as the machine's result
\* whatever its type and changes none of x, pc, fp, gp or the arena; the
\* halted machine stands at that Def(0) with the returned value still in x,
\* so every later call of step returns the same result again.
C21_HaltingStable ==
    /\ [][ (Callable /\ Cur = Def(0))
           => /\ last'.tag = "Halt"
              /\ last'.val = x
              /\ MachineUnchanged ]_vars
    /\ [](Halted => /\ Callable
                    /\ Cur = Def(0)
                    /\ last.insn = Def(0)
                    /\ last.val = x)

\* the machine halted with an object as its result
C21_Witness ==
    /\ Halted
    /\ x.ty = "Object"
    /\ last.val = x
    /\ Len(hist[1].ran) > 0

====
